---------------------------- MODULE Spec2Model ----------------------------
(* Model of the SQL escaper (src/src/sql/mod.rs) and of QueryBuilder with  *)
(* its Separated view and the SqlLiteral renderers                         *)
(* (src/src/sql/query_builder.rs).                                         *)
(*                                                                         *)
(* A text is a sequence of one-character strings.  Three specifications    *)
(* share the variables:                                                    *)
(*   Spec        - a QueryBuilder driven through push / push_bind /        *)
(*                 separated / build, with at most one live Separated view *)
(*   SpecEscape  - one call of string() or identifier() writing to a sink  *)
(*                 that may reject any write, next to a push_bind of the   *)
(*                 same text                                               *)
(*   SpecLiteral - one push_bind of a (nested) Vec literal                 *)
EXTENDS Integers, Sequences, FiniteSets, TLC

VARIABLES
    \* QueryBuilder and Separated
    query,           \* QueryBuilder.query
    phase,           \* "building" | "built" (build consumes the builder)
    result,          \* the String returned by build()
    view_live,       \* a Separated view borrows the builder
    push_separator,  \* Separated.push_separator
    separator,       \* Separated.separator
    \* history of the calls made (observation only)
    seed,            \* the argument of QueryBuilder::new
    calls,           \* the QueryBuilder::push / push_bind calls, in order
    prev_query,      \* the buffer before the last operation
    nops,            \* number of operations made
    lastOp,          \* the last operation and its arguments
    viewStart,       \* Len(query) when the live view was created
    viewItems,       \* the items given to Separated::push / push_bind
    viewSeps,        \* how often the live view wrote its separator
    viewUnsep,       \* number of push_unseparated calls on the live view
    views,           \* number of views created so far
    \* escape() writing to a sink
    esc_src,         \* src
    esc_ch,          \* ch
    esc_todo,        \* the write calls escape() has still to make
    esc_ret,         \* "none" while running, then "ok" | "err"
    sink,            \* the text the sink has accepted
    sink_failed,     \* the sink has rejected a write
    sink_calls,      \* write calls received by the sink
    \* literal rendering
    lit_value        \* the value handed to push_bind

vars == << query, phase, result, view_live, push_separator, separator,
           seed, calls, prev_query, nops, lastOp, viewStart, viewItems,
           viewSeps, viewUnsep, views,
           esc_src, esc_ch, esc_todo, esc_ret, sink, sink_failed, sink_calls,
           lit_value >>

qbVars  == << query, phase, result, view_live, push_separator, separator,
              seed, calls, prev_query, nops, lastOp, viewStart, viewItems,
              viewSeps, viewUnsep, views >>
escVars == << esc_src, esc_ch, esc_todo, esc_ret, sink, sink_failed,
              sink_calls >>

-----------------------------------------------------------------------------
(* Bounds *)

MaxLen    == 3   \* longest src given to escape()
MaxOps    == 4   \* operations made on one builder
MaxVecLen == 2   \* longest Vec rendered

-----------------------------------------------------------------------------
(* Texts *)

\* A character is a string token; the lexer of TLA+ has no way to write
\* the grave accent inside a string, so that one character is spelled out.
SQ == "'"          \* single quote, the ch of string()
BQ == "backtick"   \* grave accent, the ch of identifier()
BS == "\\"         \* backslash
NL == "\n"         \* newline

\* the characters of the texts that are escaped
Chars == { "a", SQ, BQ, BS, NL }

RECURSIVE Concat(_)
Concat(ss) == IF ss = << >> THEN << >> ELSE Head(ss) \o Concat(Tail(ss))

RECURSIVE TextsUpTo(_)
TextsUpTo(n) ==
    IF n = 0 THEN { << >> }
    ELSE LET shorter == TextsUpTo(n - 1)
         IN  shorter \cup { Append(t, c) : t \in { u \in shorter : Len(u) = n - 1 },
                                          c \in Chars }

-----------------------------------------------------------------------------
(* The escaper: escape(src, dst, ch) of mod.rs *)

\* a split that leaves out the empty part after a final c
RECURSIVE SplitTerminator(_, _)
SplitTerminator(s, c) ==
    IF s = << >> THEN << >>
    ELSE LET rest == SplitTerminator(Tail(s), c)
         IN  IF Head(s) = c
             THEN << << >> >> \o rest
             ELSE IF rest = << >>
                  THEN << << Head(s) >> >>
                  ELSE << << Head(s) >> \o Head(rest) >> \o Tail(rest)

\* src.split(c): the parts of s between the occurrences of c, in order; a
\* text with n occurrences has n + 1 parts, empty parts included
RECURSIVE Split(_, _)
Split(s, c) ==
    IF s = << >> THEN << << >> >>
    ELSE LET rest == Split(Tail(s), c)
         IN  IF Head(s) = c
             THEN << << >> >> \o rest
             ELSE << << Head(s) >> \o Head(rest) >> \o Tail(rest)

\* the inner loop without the write of the doubled backslash
InnerWritesNoEscape(part) ==
    LET ps == Split(part, BS)
    IN  Concat([ idx \in 1..Len(ps) |-> << ps[idx] >> ])

\* the inner loop: the write calls made for one part of the outer split
\* (enumerate() counts from 0, the sequence from 1)
InnerWrites(part) ==
    LET ps == Split(part, BS)
    IN  Concat([ idx \in 1..Len(ps) |->
                   (IF idx > 1 THEN << << BS, BS >> >> ELSE << >>)
                   \o << ps[idx] >> ])

\* the outer loop writing the quote character without its backslash
OuterWritesBareQuote(src, ch) ==
    LET ps == Split(src, ch)
    IN  Concat([ idx \in 1..Len(ps) |->
                   (IF idx > 1 THEN << << ch >> >> ELSE << >>)
                   \o InnerWrites(ps[idx]) ])

\* the outer loop: the write calls made between the two quote characters
OuterWrites(src, ch) ==
    LET ps == Split(src, ch)
    IN  Concat([ idx \in 1..Len(ps) |->
                   (IF idx > 1 THEN << << BS >>, << ch >> >> ELSE << >>)
                   \o InnerWrites(ps[idx]) ])

\* every write call of escape(src, dst, ch), in order; each is the text of
\* one write_char or write_str
EscapeWrites(src, ch) == << << ch >> >> \o OuterWrites(src, ch) \o << << ch >> >>

\* a write result that is not looked at
QuestionIgnored(res) == FALSE

\* the ? operator: the function returns at once when the write failed
Question(res) == res = "err"

\* the state of escape() after a write call with result res, rest being the
\* write calls that follow it; the last write's result is the return value
AfterWrite(res, rest) ==
    IF rest = << >> THEN res
    ELSE IF Question(res) THEN "err" ELSE "none"

\* string(src, dst) and identifier(src, dst)
EscapeChars == { SQ, BQ }

\* a write call the sink accepts
EscWriteOk ==
    /\ esc_ret = "none"
    /\ esc_todo # << >>
    /\ sink' = sink \o Head(esc_todo)
    /\ sink_calls' = sink_calls + 1
    /\ esc_ret' = AfterWrite("ok", Tail(esc_todo))
    /\ esc_todo' = Tail(esc_todo)
    /\ UNCHANGED << esc_src, esc_ch, sink_failed, lit_value >>
    /\ UNCHANGED qbVars

\* a write call the sink rejects, having taken in none or a part of its text
EscWriteErr ==
    /\ esc_ret = "none"
    /\ esc_todo # << >>
    /\ \E k \in 0..Len(Head(esc_todo)) :
          /\ k = 0 \/ k < Len(Head(esc_todo))
          /\ sink' = sink \o SubSeq(Head(esc_todo), 1, k)
    /\ sink_calls' = sink_calls + 1
    /\ sink_failed' = TRUE
    /\ esc_ret' = AfterWrite("err", Tail(esc_todo))
    /\ esc_todo' = Tail(esc_todo)
    /\ UNCHANGED << esc_src, esc_ch, lit_value >>
    /\ UNCHANGED qbVars

-----------------------------------------------------------------------------
(* Values: what is displayed (impl Display) and what is bound (SqlLiteral) *)

\* One record shape for every value: kind is "i32", "str" (&str and String),
\* "vec" (Vec<T>) or "args" (a format_args! of several displayable values).
I32(n)      == [kind |-> "i32",  n |-> n, s |-> << >>, items |-> << >>]
Str(s)      == [kind |-> "str",  n |-> 0, s |-> s,     items |-> << >>]
Vec(items)  == [kind |-> "vec",  n |-> 0, s |-> << >>, items |-> items]
Args(items) == [kind |-> "args", n |-> 0, s |-> << >>, items |-> items]
NoArg       == [kind |-> "none", n |-> 0, s |-> << >>, items |-> << >>]

DigitChar(d) == << "0", "1", "2", "3", "4", "5", "6", "7", "8", "9" >>[d + 1]

RECURSIVE Digits(_)
Digits(n) ==
    IF n < 10 THEN << DigitChar(n) >>
    ELSE Digits(n \div 10) \o << DigitChar(n % 10) >>

\* Display of an integer: its decimal digits, after a minus sign when negative
ToDecimal(n) == IF n < 0 THEN << "-" >> \o Digits(0 - n) ELSE Digits(n)

\* Display::fmt with no format flags: a text is written as it is
RECURSIVE Display(_)
Display(x) ==
    CASE x.kind = "i32"  -> ToDecimal(x.n)
      [] x.kind = "str"  -> x.s
      [] x.kind = "args" ->
            Concat([ i \in 1..Len(x.items) |-> Display(x.items[i]) ])

\* escape_string leaving the backslash as it is
escape_string_quote_only(s) ==
    Concat([ i \in 1..Len(s) |->
               IF s[i] = SQ THEN << BS, SQ >> ELSE << s[i] >> ])

\* escape_string(s): character by character
escape_string(s) ==
    Concat([ i \in 1..Len(s) |->
               CASE s[i] = SQ -> << BS, SQ >>
                 [] s[i] = BS -> << BS, BS >>
                 [] OTHER     -> << s[i] >> ])

\* the Vec loop writing ", " before every element
VecSeparatorAlways(push_sep) == << ",", " " >>

\* the Vec loop: what is written before an element, given the flag
VecSeparator(push_sep) == IF push_sep THEN << ",", " " >> ELSE << >>

RECURSIVE SqlLiteralFmt(_)

\* the Vec loop from element i on, push_sep being the loop's push_separator
RECURSIVE VecLoop(_, _, _)
VecLoop(items, i, push_sep) ==
    IF i > Len(items) THEN << >>
    ELSE VecSeparator(push_sep) \o SqlLiteralFmt(items[i])
         \o VecLoop(items, i + 1, TRUE)

\* SqlLiteral::fmt of each implementing type
SqlLiteralFmt(v) ==
    CASE v.kind = "i32" -> ToDecimal(v.n)
      [] v.kind = "str" -> << SQ >> \o escape_string(v.s) \o << SQ >>
      [] v.kind = "vec" -> << "[" >> \o VecLoop(v.items, 1, FALSE) \o << "]" >>

-----------------------------------------------------------------------------
(* QueryBuilder and Separated *)

\* A builder b is [query, calls]: the buffer and the record of the push and
\* push_bind calls it has received.

\* push running its argument through escape_string
QbPushEscaped(b, sql) ==
    [query |-> b.query \o escape_string(Display(sql)),
     calls |-> Append(b.calls, [op |-> "push", arg |-> sql])]

\* QueryBuilder::push
QbPush(b, sql) ==
    [query |-> b.query \o Display(sql),
     calls |-> Append(b.calls, [op |-> "push", arg |-> sql])]

\* QueryBuilder::push_bind
QbPushBind(b, value) ==
    [query |-> b.query \o SqlLiteralFmt(value),
     calls |-> Append(b.calls, [op |-> "push_bind", arg |-> value])]

\* a view created with the flag already set
SeparatedNewSet(sep) == [push_separator |-> TRUE, separator |-> sep]

\* Separated::new
SeparatedNew(sep) == [push_separator |-> FALSE, separator |-> sep]

\* The operations of a view give [qb, push_separator, seps]: the builder and
\* the flag after the call, and how often the call wrote the separator.

\* push_unseparated going through the separator logic of push
SeparatedPushUnseparatedFlagged(b, push_sep, sep, sql) ==
    [qb |-> QbPush(b, sql), push_separator |-> TRUE, seps |-> 0]

\* Separated::push_unseparated
SeparatedPushUnseparated(b, push_sep, sep, sql) ==
    [qb |-> QbPush(b, sql), push_separator |-> push_sep, seps |-> 0]

\* Separated::push
SeparatedPush(b, push_sep, sep, sql) ==
    IF push_sep
    THEN [qb |-> QbPush(b, Args(<< sep, sql >>)),
          push_separator |-> push_sep, seps |-> 1]
    ELSE [qb |-> QbPush(b, sql), push_separator |-> TRUE, seps |-> 0]

\* push_bind writing the separator after the value
SeparatedPushBindTrailing(b, push_sep, sep, value) ==
    LET b1 == QbPushBind(b, value)
    IN  [qb |-> IF push_sep THEN QbPush(b1, sep) ELSE b1,
         push_separator |-> TRUE,
         seps |-> IF push_sep THEN 1 ELSE 0]

\* Separated::push_bind
SeparatedPushBind(b, push_sep, sep, value) ==
    LET b1 == IF push_sep THEN QbPush(b, sep) ELSE b
    IN  [qb |-> QbPushBind(b1, value),
         push_separator |-> TRUE,
         seps |-> IF push_sep THEN 1 ELSE 0]

-----------------------------------------------------------------------------
(* Inputs *)

SeqsUpTo(S, n) == UNION { [1..k -> S] : k \in 0..n }

Seeds      == { << >>, << "S" >> }
Frags      == { Str(<< "x" >>), Str(<< SQ, BS >>), I32(45) }
Seps       == { Str(<< ",", " " >>), Str(<< "&" >>) }
BindValues == { I32(0 - 7), Str(<< SQ, BS >>), Vec(<< I32(1), I32(2) >>) }

I32Lits    == { I32(0), I32(0 - 17) }
StrLits    == { Str(<< "a" >>), Str(<< SQ, BS >>) }
VecI32     == { Vec(t) : t \in SeqsUpTo(I32Lits, MaxVecLen) }
VecStr     == { Vec(t) : t \in SeqsUpTo(StrLits, MaxVecLen) }
VecVecI32  == { Vec(t) : t \in SeqsUpTo(VecI32, MaxVecLen) }
LitValues  == I32Lits \cup StrLits \cup VecI32 \cup VecStr \cup VecVecI32

-----------------------------------------------------------------------------
(* Operations on the builder *)

Builder == [query |-> query, calls |-> calls]

NoView ==
    /\ view_live' = FALSE
    /\ push_separator' = FALSE
    /\ separator' = NoArg
    /\ viewStart' = 0
    /\ viewItems' = << >>
    /\ viewSeps' = 0
    /\ viewUnsep' = 0

\* QueryBuilder::new(init)
QbInit(init) ==
    /\ seed = init
    /\ query = init
    /\ calls = << >>
    /\ prev_query = init
    /\ phase = "building"
    /\ result = << >>
    /\ nops = 0
    /\ lastOp = [op |-> "new", arg |-> Str(init)]
    /\ view_live = FALSE
    /\ push_separator = FALSE
    /\ separator = NoArg
    /\ viewStart = 0
    /\ viewItems = << >>
    /\ viewSeps = 0
    /\ viewUnsep = 0
    /\ views = 0

\* no escape() call is under way
EscIdle ==
    /\ esc_src = << >>
    /\ esc_ch = SQ
    /\ esc_todo = << >>
    /\ esc_ret = "idle"
    /\ sink = << >>
    /\ sink_failed = FALSE
    /\ sink_calls = 0

viewVars == << view_live, push_separator, separator, viewStart, viewItems,
               viewSeps, viewUnsep, views >>

\* qb.push(sql), the builder not being borrowed by a view
Push(sql) ==
    /\ phase = "building"
    /\ ~view_live
    /\ nops < MaxOps
    /\ LET b == QbPush(Builder, sql)
       IN  /\ query' = b.query
           /\ calls' = b.calls
    /\ prev_query' = query
    /\ nops' = nops + 1
    /\ lastOp' = [op |-> "push", arg |-> sql]
    /\ UNCHANGED << phase, result, seed, lit_value >>
    /\ UNCHANGED viewVars
    /\ UNCHANGED escVars

\* qb.push_bind(value), the builder not being borrowed by a view
PushBind(value) ==
    /\ phase = "building"
    /\ ~view_live
    /\ nops < MaxOps
    /\ LET b == QbPushBind(Builder, value)
       IN  /\ query' = b.query
           /\ calls' = b.calls
    /\ prev_query' = query
    /\ nops' = nops + 1
    /\ lastOp' = [op |-> "push_bind", arg |-> value]
    /\ UNCHANGED << phase, result, seed, lit_value >>
    /\ UNCHANGED viewVars
    /\ UNCHANGED escVars

\* qb.separated(sep): the view borrows the builder until it is dropped
Separated(sep) ==
    /\ phase = "building"
    /\ ~view_live
    /\ nops < MaxOps
    /\ LET v == SeparatedNew(sep)
       IN  /\ push_separator' = v.push_separator
           /\ separator' = v.separator
    /\ view_live' = TRUE
    /\ viewStart' = Len(query)
    /\ viewItems' = << >>
    /\ viewSeps' = 0
    /\ viewUnsep' = 0
    /\ views' = views + 1
    /\ prev_query' = query
    /\ nops' = nops + 1
    /\ lastOp' = [op |-> "separated", arg |-> sep]
    /\ UNCHANGED << query, calls, phase, result, seed, lit_value >>
    /\ UNCHANGED escVars

\* view.push_unseparated(sql)
SepPushUnseparated(sql) ==
    /\ view_live
    /\ nops < MaxOps
    /\ LET r == SeparatedPushUnseparated(Builder, push_separator, separator, sql)
       IN  /\ query' = r.qb.query
           /\ calls' = r.qb.calls
           /\ push_separator' = r.push_separator
           /\ viewSeps' = viewSeps + r.seps
    /\ viewUnsep' = viewUnsep + 1
    /\ prev_query' = query
    /\ nops' = nops + 1
    /\ lastOp' = [op |-> "push_unseparated", arg |-> sql]
    /\ UNCHANGED << phase, result, seed, lit_value, view_live, separator,
                    viewStart, viewItems, views >>
    /\ UNCHANGED escVars

\* view.push(sql)
SepPush(sql) ==
    /\ view_live
    /\ nops < MaxOps
    /\ LET r == SeparatedPush(Builder, push_separator, separator, sql)
       IN  /\ query' = r.qb.query
           /\ calls' = r.qb.calls
           /\ push_separator' = r.push_separator
           /\ viewSeps' = viewSeps + r.seps
    /\ viewItems' = Append(viewItems, [op |-> "push", arg |-> sql])
    /\ prev_query' = query
    /\ nops' = nops + 1
    /\ lastOp' = [op |-> "sep_push", arg |-> sql]
    /\ UNCHANGED << phase, result, seed, lit_value, view_live, separator,
                    viewStart, viewUnsep, views >>
    /\ UNCHANGED escVars

\* view.push_bind(value)
SepPushBind(value) ==
    /\ view_live
    /\ nops < MaxOps
    /\ LET r == SeparatedPushBind(Builder, push_separator, separator, value)
       IN  /\ query' = r.qb.query
           /\ calls' = r.qb.calls
           /\ push_separator' = r.push_separator
           /\ viewSeps' = viewSeps + r.seps
    /\ viewItems' = Append(viewItems, [op |-> "push_bind", arg |-> value])
    /\ prev_query' = query
    /\ nops' = nops + 1
    /\ lastOp' = [op |-> "sep_push_bind", arg |-> value]
    /\ UNCHANGED << phase, result, seed, lit_value, view_live, separator,
                    viewStart, viewUnsep, views >>
    /\ UNCHANGED escVars

\* the view goes out of scope and the borrow of the builder ends
SepDrop ==
    /\ view_live
    /\ NoView
    /\ prev_query' = query
    /\ lastOp' = [op |-> "drop", arg |-> NoArg]
    /\ UNCHANGED << query, calls, phase, result, seed, nops, views, lit_value >>
    /\ UNCHANGED escVars

\* qb.build(): the builder is consumed and its buffer returned
Build ==
    /\ phase = "building"
    /\ ~view_live
    /\ phase' = "built"
    /\ result' = query
    /\ prev_query' = query
    /\ lastOp' = [op |-> "build", arg |-> NoArg]
    /\ UNCHANGED << query, calls, seed, nops, lit_value >>
    /\ UNCHANGED viewVars
    /\ UNCHANGED escVars

-----------------------------------------------------------------------------
(* Specifications *)

Init ==
    /\ \E init \in Seeds : QbInit(init)
    /\ EscIdle
    /\ lit_value = NoArg

Next ==
    \/ \E sql \in Frags : Push(sql)
    \/ \E value \in BindValues : PushBind(value)
    \/ \E sep \in Seps : Separated(sep)
    \/ \E sql \in Frags : SepPushUnseparated(sql)
    \/ \E sql \in Frags : SepPush(sql)
    \/ \E value \in BindValues : SepPushBind(value)
    \/ SepDrop
    \/ Build

Spec == Init /\ [][Next]_vars

\* one escape(src, dst, ch) call, and the same src bound to a fresh builder
InitEscape ==
    /\ QbInit(<< >>)
    /\ esc_src \in TextsUpTo(MaxLen)
    /\ esc_ch \in EscapeChars
    /\ esc_todo = EscapeWrites(esc_src, esc_ch)
    /\ esc_ret = "none"
    /\ sink = << >>
    /\ sink_failed = FALSE
    /\ sink_calls = 0
    /\ lit_value = Str(esc_src)

BindSrc == nops = 0 /\ PushBind(lit_value)

NextEscape ==
    \/ EscWriteOk
    \/ EscWriteErr
    \/ BindSrc

SpecEscape == InitEscape /\ [][NextEscape]_vars

\* one push_bind of a literal on a fresh builder, then build
InitLiteral ==
    /\ \E init \in Seeds : QbInit(init)
    /\ EscIdle
    /\ lit_value \in LitValues

BindLiteral == nops = 0 /\ PushBind(lit_value)

NextLiteral ==
    \/ BindLiteral
    \/ Build

SpecLiteral == InitLiteral /\ [][NextLiteral]_vars

-----------------------------------------------------------------------------
(* What the claims are stated with *)

\* a is a prefix of b
IsPrefix(a, b) == Len(a) <= Len(b) /\ SubSeq(b, 1, Len(a)) = a

\* s without its first n characters
Drop(s, n) == SubSeq(s, n + 1, Len(s))

\* the number of occurrences of c in s
Count(s, c) == Cardinality({ i \in 1..Len(s) : s[i] = c })

\* texts joined by sep: t1 sep t2 ... sep tn
RECURSIVE JoinRef(_, _)
JoinRef(texts, sep) ==
    IF Len(texts) = 0 THEN << >>
    ELSE IF Len(texts) = 1 THEN texts[1]
    ELSE texts[1] \o sep \o JoinRef(Tail(texts), sep)

\* the text of an item or call [op, arg]: displayed as it is when pushed,
\* rendered as a literal when bound
ItemText(it) ==
    IF it.op = "push" THEN Display(it.arg) ELSE SqlLiteralFmt(it.arg)

ItemTexts(its) == [ i \in 1..Len(its) |-> ItemText(its[i]) ]

\* what the live view has appended to the builder
ViewText == Drop(query, viewStart)

\* C1: in a view that has received n >= 1 push / push_bind calls and no
\* push_unseparated call, the text appended is item1 sep item2 ... sep itemn,
\* and the separator has been written n - 1 times (not at all when n = 1)
C1_SeparatedJoin ==
    (view_live /\ viewUnsep = 0 /\ Len(viewItems) >= 1) =>
        /\ ViewText = JoinRef(ItemTexts(viewItems), Display(separator))
        /\ viewSeps = Len(viewItems) - 1

C1_Witness ==
    /\ view_live
    /\ viewUnsep = 0
    /\ Len(viewItems) = 3
    /\ viewItems[1].op = "push_bind"
    /\ viewItems[2].op = "push"
    /\ viewItems[3].op = "push_bind"
    /\ viewSeps = 2

\* C2: the buffer is the seed followed by the text of every push (verbatim)
\* and push_bind call in call order, the buffer before an operation is a
\* prefix of the buffer after it, and build() returns that buffer
C2_AppendOnly ==
    /\ query = seed \o Concat(ItemTexts(calls))
    /\ IsPrefix(prev_query, query)
    /\ (lastOp.op = "push" /\ lastOp.arg.kind = "str") =>
          query = prev_query \o lastOp.arg.s
    /\ phase = "built" => result = seed \o Concat(ItemTexts(calls))

C2_Witness ==
    /\ phase = "built"
    /\ seed # << >>
    /\ views >= 1
    /\ Len(calls) = 3
    /\ calls[1] = [op |-> "push", arg |-> Str(<< SQ, BS >>)]
    /\ calls[2].op = "push_bind"
    /\ calls[3].arg.kind = "args"

\* unescape: the enclosing quotes are stripped, then, left to right, a
\* backslash followed by a single quote or a backslash gives that character
RECURSIVE UnescapeBody(_)
UnescapeBody(b) ==
    IF b = << >> THEN << >>
    ELSE IF Head(b) = BS /\ Len(b) >= 2 /\ b[2] \in { SQ, BS }
    THEN << b[2] >> \o UnescapeBody(Drop(b, 2))
    ELSE << Head(b) >> \o UnescapeBody(Tail(b))

Unescape(t) == UnescapeBody(SubSeq(t, 2, Len(t) - 1))

\* C3: unescape(escape_as_string_literal(s)) = s
C3_RoundTrip ==
    (esc_ret = "ok" /\ esc_ch = SQ) => Unescape(sink) = esc_src

C3_Witness ==
    /\ esc_ret = "ok"
    /\ esc_ch = SQ
    /\ esc_src = << BS, SQ, BS >>

\* f of C4, from the last character to the first
RECURSIVE MapChars(_, _)
MapChars(s, q) ==
    IF s = << >> THEN << >>
    ELSE LET n == Len(s)
             c == s[n]
         IN  MapChars(SubSeq(s, 1, n - 1), q)
             \o (IF c = q THEN << BS, q >>
                 ELSE IF c = BS THEN << BS, BS >>
                 ELSE << c >>)

\* C4: escape(s, Q) writes Q f(s) Q, where f turns Q into backslash Q, a
\* backslash into two and copies every other character; the output starts
\* and ends with Q and is len(s) + 2 + #Q + #backslash long
C4_CharMap ==
    esc_ret = "ok" =>
        /\ sink = << esc_ch >> \o MapChars(esc_src, esc_ch) \o << esc_ch >>
        /\ sink[1] = esc_ch
        /\ sink[Len(sink)] = esc_ch
        /\ Len(sink) = Len(esc_src) + 2 + Count(esc_src, esc_ch)
                       + Count(esc_src, BS)

C4_Witness ==
    /\ esc_ret = "ok"
    /\ esc_ch = BQ
    /\ esc_src = << BQ, BS, SQ >>
    /\ sink = << BQ, BS, BQ, BS, BS, SQ, BQ >>

\* C5: push_bind of a text appends the characters that
\* escape_as_string_literal writes to a sink for the same text
C5_BindIsString ==
    (esc_ret = "ok" /\ esc_ch = SQ /\ lastOp.op = "push_bind") =>
        Drop(query, Len(prev_query)) = sink

C5_Witness ==
    /\ esc_ret = "ok"
    /\ esc_ch = SQ
    /\ lastOp = [op |-> "push_bind", arg |-> Str(<< "a", SQ, BS >>)]
    /\ esc_src = << "a", SQ, BS >>

\* the rendering of C6: brackets around the elements joined by ", ", the
\* elements rendered by the same rule
RECURSIVE RefRender(_)
RefRender(v) ==
    IF v.kind = "vec"
    THEN << "[" >>
         \o JoinRef([ i \in 1..Len(v.items) |-> RefRender(v.items[i]) ],
                    << ",", " " >>)
         \o << "]" >>
    ELSE SqlLiteralFmt(v)

\* the number of "[" less the number of "]" among the first i characters
DepthAt(t, i) ==
    Cardinality({ j \in 1..i : t[j] = "[" }) - Cardinality({ j \in 1..i : t[j] = "]" })

\* the ", " joiners of t that lie directly inside its outer brackets
TopJoiners(t) ==
    Cardinality({ i \in 1..(Len(t) - 1) :
                    t[i] = "," /\ t[i + 1] = " " /\ DepthAt(t, i) = 1 })

\* what the one push_bind of SpecLiteral appended
Bound == Drop(query, Len(seed))

\* C6: a bound sequence is "[" elements joined by ", " "]", "[]" when empty,
\* with k - 1 joiners at its own level, none after "[" or before "]"
C6_VecRender ==
    (nops = 1 /\ lit_value.kind = "vec") =>
        /\ Bound = RefRender(lit_value)
        /\ lit_value.items = << >> => Bound = << "[", "]" >>
        /\ Len(lit_value.items) >= 1 =>
              TopJoiners(Bound) = Len(lit_value.items) - 1
        /\ Bound[2] # ","
        /\ ~(Bound[Len(Bound) - 1] = " ")

C6_Witness ==
    /\ nops = 1
    /\ lit_value = Vec(<< Vec(<< I32(0), I32(0 - 17) >>), Vec(<< >>) >>)
    /\ Bound = << "[", "[", "0", ",", " ", "-", "1", "7", "]", ",", " ", "[", "]", "]" >>

\* C7: once the sink has rejected a write, escape() has returned the error,
\* what the sink holds is a prefix of the full output, and the sink gets no
\* further write
C7_ErrorStops ==
    /\ [](sink_failed =>
            /\ esc_ret = "err"
            /\ IsPrefix(sink, Concat(EscapeWrites(esc_src, esc_ch))))
    /\ [][sink_failed => UNCHANGED << sink, sink_calls >>]_vars

C7_Witness ==
    /\ sink_failed
    /\ esc_ret = "err"
    /\ Len(sink) >= 3
    /\ Len(esc_todo) >= 2

Last(s) == s[Len(s)]

\* C8: push_unseparated appends its fragment only and leaves the flag as it
\* is; a push or push_bind writes the separator exactly when an earlier push
\* or push_bind was made on the view, whatever push_unseparated calls were
C8_Unseparated ==
    [][ /\ (nops' = nops + 1 /\ lastOp'.op = "push_unseparated") =>
              /\ query' = query \o Display(lastOp'.arg)
              /\ push_separator' = push_separator
              /\ viewSeps' = viewSeps
        /\ (nops' = nops + 1 /\ lastOp'.op \in { "sep_push", "sep_push_bind" }) =>
              query' = query
                       \o (IF viewItems # << >> THEN Display(separator) ELSE << >>)
                       \o ItemText(Last(viewItems'))
      ]_vars

C8_Witness ==
    /\ view_live
    /\ seed = << >>
    /\ viewUnsep = 1
    /\ lastOp.op = "sep_push_bind"
    /\ separator = Str(<< "&" >>)
    /\ query = << "4", "5", "x", "&", "-", "7" >>

\* C9: a view starts with the flag false, whatever the buffer holds and
\* whatever views came before; its first push or push_bind sets the flag;
\* no operation on the view clears it
C9_FlagOneWay ==
    [][ /\ (~view_live /\ view_live') => ~push_separator'
        /\ (view_live /\ view_live' /\ push_separator) => push_separator'
        /\ (nops' = nops + 1 /\ lastOp'.op \in { "sep_push", "sep_push_bind" }) =>
              push_separator'
      ]_vars

C9_Witness ==
    /\ views = 2
    /\ view_live
    /\ push_separator
    /\ viewUnsep = 0
    /\ Len(viewItems) = 1
    /\ viewStart > 0

\* the scan of C10 from position i: a backslash consumes the character after
\* it; the result is the position of the first q met, 0 when none is met
RECURSIVE ScanQuote(_, _, _)
ScanQuote(t, i, q) ==
    IF i > Len(t) THEN 0
    ELSE IF t[i] = BS THEN ScanQuote(t, i + 2, q)
    ELSE IF t[i] = q THEN i
    ELSE ScanQuote(t, i + 1, q)

\* the length of the run of backslashes that ends right before position i
RECURSIVE RunBefore(_, _)
RunBefore(t, i) ==
    IF i > 1 /\ t[i - 1] = BS THEN 1 + RunBefore(t, i - 1) ELSE 0

\* C10: in the output of escape(s, Q) the scan meets an unescaped Q at the
\* last character only; every Q inside follows an odd run of backslashes and
\* the last Q an even one; the same scan of the text that push_bind renders
\* with escape_string ends at its last character too
C10_NoEarlyEnd ==
    esc_ret = "ok" =>
        /\ ScanQuote(sink, 2, esc_ch) = Len(sink)
        /\ \A i \in 2..(Len(sink) - 1) :
              sink[i] = esc_ch => RunBefore(sink, i) % 2 = 1
        /\ RunBefore(sink, Len(sink)) % 2 = 0
        /\ (esc_ch = SQ /\ lastOp.op = "push_bind") =>
              ScanQuote(query, 2, SQ) = Len(query)

C10_Witness ==
    /\ esc_ret = "ok"
    /\ esc_ch = SQ
    /\ esc_src = << BS, SQ, SQ >>

=============================================================================
